---- MODULE Spec2Model ----
(***************************************************************************)
(* cambia-cli (src/src/bin/cambia-cli.rs): batch analysis of rip logs by a *)
(* rayon worker pool under a polling coordinator, the result filter, and   *)
(* the terminal dashboard.                                                 *)
(***************************************************************************)
EXTENDS Integers, Sequences, FiniteSets, TLC

\* ------------------------------------------------------------------ bounds
\* Largest batch (log_paths.len()) of the pipeline specification.
MaxCandidates == 2
\* Number of rayon worker threads that may run a task at the same time.
NumWorkers == 2
\* Longest result list of the filter specification.
MaxEntries == 3

VARIABLES
    root,         \* the filesystem entry cli.path names, with what a walk of it yields
    log_paths,    \* run: log_paths, the candidates in collection order
    total,        \* run: total = log_paths.len()
    save_logs,    \* cli.save_logs is Some(dir)
    show_100,     \* cli.show_100
    task,         \* per candidate: position of its for_each closure, bytes read, result
    counter,      \* AtomicUsize completion counter
    shared_logs,  \* Mutex<Vec<LogEntry>> contents
    lock_held,    \* the mutex is locked by a worker
    poisoned,     \* the mutex is poisoned
    files,        \* the persistence directory: file per identifier
    handle,       \* the analysis thread: unspawned / running / finished / panicked
    mainpc,       \* position of the thread executing run()
    status,       \* the transient status line last written by the progress loop
    logs,         \* run's local `logs`, then App.logs
    selected,     \* App.list_state.selected(): {} is None, {i} is Some(i)
    raw_mode,     \* terminal is in raw mode
    alt_screen,   \* terminal shows the alternate screen
    cursor_hidden,\* terminal cursor is hidden
    ui_result,    \* result of ui_loop: "none", "ok", "err"
    event,        \* ui_loop: the event the current iteration has read
    run_result    \* result of run(): "none", "ok", or the error kind

vars == <<root, log_paths, total, save_logs, show_100, task, counter, shared_logs,
          lock_held, poisoned, files, handle, mainpc, status, logs, selected,
          raw_mode, alt_screen, cursor_hidden, ui_result, event, run_result>>

analysisVars == <<task, counter, shared_logs, lock_held, poisoned, files, handle>>
cliVars == <<root, log_paths, total, save_logs, show_100>>
uiVars == <<selected, raw_mode, alt_screen, cursor_hidden, ui_result, event>>

\* ------------------------------------------------- the evaluator's reports
\* A combined score is text: a sequence of characters.
Score100 == <<"1", "0", "0">>
Score100Padded == <<" ", "1", "0", "0", "\n">>
Score100Inner == <<"1", " ", "0", "0">>
Score95 == <<"9", "5">>

Outcome(kind, score) == [evaluator |-> kind, combined_score |-> score]

\* Raw log contents a candidate file may hold, named by what the evaluator
\* makes of them.
OkContents ==
    {"ops100", "cambia_ops100pad", "ops95_ops100", "cambia100", "ops1_00",
     "no_outcomes", "ops95_cambia100"}
Contents == OkContents \cup {"rejected", "faulting"}

\* Contents the candidates of the pipeline specification are drawn from.
PipelineContents == {"ops100", "cambia100", "rejected", "faulting"}

\* parsed.id: the identifier the evaluator derives from the log content.
Digest(b) == <<"id", b>>

Ids == {Digest(b) : b \in OkContents}

\* parsed.evaluation_combined for each accepted content.
EvaluationCombined(b) ==
    CASE b = "ops100" -> <<Outcome("OPS", Score100)>>
      [] b = "cambia_ops100pad" ->
            <<Outcome("Cambia", Score95), Outcome("OPS", Score100Padded)>>
      [] b = "ops95_ops100" ->
            <<Outcome("OPS", Score95), Outcome("OPS", Score100)>>
      [] b = "cambia100" -> <<Outcome("Cambia", Score100)>>
      [] b = "ops1_00" -> <<Outcome("OPS", Score100Inner)>>
      [] b = "no_outcomes" -> <<>>
      [] b = "ops95_cambia100" ->
            <<Outcome("OPS", Score95), Outcome("Cambia", Score100)>>

\* parse_log_bytes(Vec::new(), &bytes): "ok", "err" (rejected) or "panic".
ParseResult(b) ==
    IF b \in OkContents THEN "ok"
    ELSE IF b = "rejected" THEN "err" ELSE "panic"

ParsedResponse(b) == [id |-> Digest(b), evaluation_combined |-> EvaluationCombined(b)]

\* LogEntry { path, response }
LogEntry(c, b) == [path |-> c, response |-> ParsedResponse(b)]

\* ------------------------------------------------------- the result filter
IsWhitespace(ch) == ch \in {" ", "\t", "\n", "\r"}

RECURSIVE TrimStart(_)
TrimStart(s) ==
    IF s # <<>> /\ IsWhitespace(Head(s)) THEN TrimStart(Tail(s)) ELSE s

RECURSIVE TrimEnd(_)
TrimEnd(s) ==
    IF s # <<>> /\ IsWhitespace(s[Len(s)])
    THEN TrimEnd(SubSeq(s, 1, Len(s) - 1)) ELSE s

\* str::trim
Trim(s) == TrimEnd(TrimStart(s))

\* Indices of the outcomes of kind OPS.
OpsPositions(resp) ==
    {i \in 1..Len(resp.evaluation_combined) :
        resp.evaluation_combined[i].evaluator = "OPS"}

Min(S) == CHOOSE x \in S : \A y \in S : x <= y

\* Faulty variant of is_ops_full_score: compares the score without trimming it.
IsOpsFullScoreNoTrim(resp) ==
    IF OpsPositions(resp) = {} THEN FALSE
    ELSE resp.evaluation_combined[Min(OpsPositions(resp))].combined_score = Score100

\* Faulty variant of is_ops_full_score: unwrap_or(true) when there is no OPS outcome.
IsOpsFullScoreDefaultTrue(resp) ==
    IF OpsPositions(resp) = {} THEN TRUE
    ELSE Trim(resp.evaluation_combined[Min(OpsPositions(resp))].combined_score)
            = Score100

\* is_ops_full_score: the first OPS outcome (find), its trimmed score == "100",
\* false when there is none.
IsOpsFullScore(resp) ==
    IF OpsPositions(resp) = {} THEN FALSE
    ELSE Trim(resp.evaluation_combined[Min(OpsPositions(resp))].combined_score)
            = Score100

\* Vec::retain(|entry| !is_ops_full_score(&entry.response))
RetainNotFull(l) == SelectSeq(l, LAMBDA e : ~IsOpsFullScore(e.response))

\* ------------------------------------------------------------- dashboard
\* App::new: list_state.select(Some(0)) unless logs is empty.
InitialSelection(l) == IF Len(l) = 0 THEN {} ELSE {0}

\* Faulty variant of select_next: no clamp at the end of the list.
SelectNextNoClamp(sel, len) ==
    IF len = 0 THEN sel
    ELSE IF sel # {} THEN {(CHOOSE i \in sel : TRUE) + 1} ELSE {len - 1}

\* App::select_next
SelectNext(sel, len) ==
    IF len = 0 THEN sel
    ELSE IF sel # {} /\ (CHOOSE i \in sel : TRUE) + 1 < len
         THEN {(CHOOSE i \in sel : TRUE) + 1}
         ELSE {len - 1}

\* Faulty variant of select_previous: wraps to the end of the list.
SelectPreviousWrap(sel, len) ==
    IF len = 0 THEN sel
    ELSE IF sel # {} /\ (CHOOSE i \in sel : TRUE) > 0
         THEN {(CHOOSE i \in sel : TRUE) - 1}
         ELSE {len - 1}

\* App::select_previous
SelectPrevious(sel, len) ==
    IF len = 0 THEN sel
    ELSE IF sel # {} /\ (CHOOSE i \in sel : TRUE) > 0
         THEN {(CHOOSE i \in sel : TRUE) - 1}
         ELSE {0}

\* percent = if total > 0 { done * 100 / total } else { 100 }
Percent(done, tot) == IF tot > 0 THEN (done * 100) \div tot ELSE 100


\* ------------------------------------------------- the path collector
\* Longest walk of a directory root in the collector specification.
MaxWalk == 3

\* File names: sequences of characters.
FileNames ==
    {<<"x", ".", "l", "o", "g">>, <<"y", ".", "L", "O", "G">>,
     <<"v", ".", "L", "o", "G">>, <<"z", ".", "t", "x", "t">>,
     <<".", "l", "o", "g">>, <<"l", "o", "g">>}

\* What WalkDir yields for an entry it cannot read: filter_map(Result::ok) drops it.
WalkError == [ok |-> FALSE, file_type |-> "file", name |-> <<>>]

\* The items a walk yields: entries with their file type and name, or errors.
WalkItems ==
    [ok : {TRUE}, file_type : {"file", "dir", "symlink"}, name : FileNames]
    \cup {WalkError}

\* The roots cli.path may name: a directory with its walk, a regular file,
\* another kind of entry, or a path whose metadata cannot be read.
Roots ==
    {[kind |-> "dir", name |-> <<>>, walk |-> w] :
        w \in UNION {[1..n -> WalkItems] : n \in 0..MaxWalk}}
    \cup {[kind |-> k, name |-> nm, walk |-> <<>>] :
            k \in {"file", "other", "noaccess"}, nm \in FileNames}

Max(S) == CHOOSE x \in S : \A y \in S : y <= x

\* Path::extension: the part after the last dot of the file name, None ({})
\* when there is no dot or nothing before the last dot.
Extension(name) ==
    LET dots == {i \in 1..Len(name) : name[i] = "."} IN
    IF dots = {} \/ Max(dots) = 1 THEN {}
    ELSE {SubSeq(name, Max(dots) + 1, Len(name))}

\* u8::to_ascii_lowercase on the letters the names use.
AsciiLower(ch) ==
    CASE ch = "L" -> "l" [] ch = "O" -> "o" [] ch = "G" -> "g"
      [] ch = "T" -> "t" [] ch = "X" -> "x" [] OTHER -> ch

\* str::eq_ignore_ascii_case
EqIgnoreAsciiCase(a, b) ==
    /\ Len(a) = Len(b)
    /\ \A i \in 1..Len(a) : AsciiLower(a[i]) = AsciiLower(b[i])

\* Faulty variant of IsLogFile: compares the extension with ext == "log".
IsLogFileCaseSensitive(item) ==
    /\ item.ok
    /\ item.file_type = "file"
    /\ \E ext \in Extension(item.name) : ext = <<"l", "o", "g">>

\* The test of lines 75-77 on an entry of the walk.
IsLogFile(item) ==
    /\ item.ok
    /\ item.file_type = "file"
    /\ \E ext \in Extension(item.name) : EqIgnoreAsciiCase(ext, <<"l", "o", "g">>)

\* The loop of lines 73-82: the paths pushed, in walk order. An entry's path
\* is its position in the walk.
CollectPaths(walk) ==
    SelectSeq([i \in 1..Len(walk) |-> i], LAMBDA i : IsLogFile(walk[i]))

\* A directory root whose walk yields n log files and nothing else.
DirOfLogs(n) ==
    [kind |-> "dir", name |-> <<>>,
     walk |-> [i \in 1..n |-> [ok |-> TRUE, file_type |-> "file",
                               name |-> <<"x", ".", "l", "o", "g">>]]]

\* No event is at hand: before event::read() returns one, after the match.
NoEvent ==
    [type |-> "none", code |-> "x", press |-> FALSE, ctrl |-> FALSE,
     reveal |-> "none"]

\* ------------------------------------------------------------ initial state
NewTask == [pc |-> "pending", bytes |-> <<>>, res |-> "none"]

NoFiles == [i \in Ids |-> [exists |-> FALSE, data |-> <<>>]]

\* run() at line 96: the candidate list is collected, nothing is spawned yet.
Init ==
    /\ total \in 1..MaxCandidates
    /\ root = DirOfLogs(total)
    /\ log_paths = [i \in 1..total |-> i]
    /\ event = NoEvent
    /\ save_logs \in BOOLEAN
    /\ show_100 \in BOOLEAN
    /\ task = [c \in 1..total |-> NewTask]
    /\ counter = 0
    /\ shared_logs = <<>>
    /\ lock_held = FALSE
    /\ poisoned = FALSE
    /\ files = NoFiles
    /\ handle = "unspawned"
    /\ mainpc = "spawn"
    /\ status = <<>>
    /\ logs = <<>>
    /\ selected = {}
    /\ raw_mode = FALSE
    /\ alt_screen = FALSE
    /\ cursor_hidden = FALSE
    /\ ui_result = "none"
    /\ run_result = "none"

Candidates == DOMAIN task

RunningPcs == {"analyze", "save_check", "save_create", "save_write", "lock", "push", "inc"}
EndedPcs == {"done", "panicked", "dropped"}

Running == {c \in Candidates : task[c].pc \in RunningPcs}
Pending == {c \in Candidates : task[c].pc = "pending"}

SetPc(c, pc) == [task EXCEPT ![c].pc = pc]

\* ------------------------------------------------ the workers (lines 107-122)
\* A rayon worker takes the next candidate of into_par_iter().for_each.
StartTask(c) ==
    /\ handle = "running"
    /\ task[c].pc = "pending"
    /\ Cardinality(Running) < NumWorkers
    /\ task' = SetPc(c, "analyze")
    /\ UNCHANGED <<cliVars, counter, shared_logs, lock_held, poisoned, files, handle,
                   mainpc, status, logs, uiVars, run_result>>

\* Faulty variant of MatchArm: the Ok arm goes to the fetch_add without the append.
MatchArmCountOnly(res) == "inc"

\* match analyze_single_log(..): Ok(entry) goes on to lock and push, Err(err) is
\* printed; both arms then reach the fetch_add.
MatchArm(res) == IF res = "ok" THEN "lock" ELSE "inc"

\* analyze_single_log: fs::read fails, the error is returned.
ReadFails(c) ==
    /\ task[c].pc = "analyze"
    /\ task' = [task EXCEPT ![c].pc = MatchArm("err"), ![c].res = "err"]
    /\ UNCHANGED <<cliVars, counter, shared_logs, lock_held, poisoned, files, handle,
                   mainpc, status, logs, uiVars, run_result>>

\* analyze_single_log: the bytes are read and parse_log_bytes rejects them.
ParseRejects(c) ==
    /\ task[c].pc = "analyze"
    /\ \E b \in PipelineContents :
        /\ ParseResult(b) = "err"
        /\ task' = [task EXCEPT ![c].pc = MatchArm("err"), ![c].res = "err",
                                ![c].bytes = <<b>>]
    /\ UNCHANGED <<cliVars, counter, shared_logs, lock_held, poisoned, files, handle,
                   mainpc, status, logs, uiVars, run_result>>

\* analyze_single_log: parse_log_bytes panics. The closure unwinds past the
\* fetch_add; rayon drops what is left of the panicking job's chunk unprocessed.
ParseFaults(c) ==
    /\ task[c].pc = "analyze"
    /\ \E b \in PipelineContents, D \in SUBSET Pending :
        /\ ParseResult(b) = "panic"
        /\ task' = [x \in Candidates |->
                      IF x = c THEN [task[x] EXCEPT !.pc = "panicked", !.bytes = <<b>>]
                      ELSE IF x \in D THEN [task[x] EXCEPT !.pc = "dropped"]
                      ELSE task[x]]
    /\ UNCHANGED <<cliVars, counter, shared_logs, lock_held, poisoned, files, handle,
                   mainpc, status, logs, uiVars, run_result>>

\* analyze_single_log: the bytes are read and parsed; with save_logs the raw
\* bytes are persisted before the entry is returned.
ParseOk(c) ==
    /\ task[c].pc = "analyze"
    /\ \E b \in PipelineContents :
        /\ ParseResult(b) = "ok"
        /\ task' = [task EXCEPT ![c].pc = IF save_logs THEN "save_check" ELSE MatchArm("ok"),
                                ![c].res = "ok", ![c].bytes = <<b>>]
    /\ UNCHANGED <<cliVars, counter, shared_logs, lock_held, poisoned, files, handle,
                   mainpc, status, logs, uiVars, run_result>>

TaskId(c) == Digest(task[c].bytes[1])

\* Faulty variant of SaveCheck: the error of create_dir_all is propagated with ?.
SaveCheckPropagates(c) ==
    /\ task[c].pc = "save_check"
    /\ \/ task' = [task EXCEPT ![c].pc = "inc", ![c].res = "err"]
       \/ task' = SetPc(c, IF files[TaskId(c)].exists THEN MatchArm("ok")
                           ELSE "save_create")
    /\ UNCHANGED <<cliVars, counter, shared_logs, lock_held, poisoned, files, handle,
                   mainpc, status, logs, uiVars, run_result>>

\* save_rip_log: create_dir_all, then the file_path.exists() test.
SaveCheck(c) ==
    /\ task[c].pc = "save_check"
    /\ \/ task' = SetPc(c, MatchArm("ok"))                    \* create_dir_all fails
       \/ task' = SetPc(c, IF files[TaskId(c)].exists THEN MatchArm("ok")
                           ELSE "save_create")
    /\ UNCHANGED <<cliVars, counter, shared_logs, lock_held, poisoned, files, handle,
                   mainpc, status, logs, uiVars, run_result>>

\* save_rip_log: File::create creates the file or truncates the existing one.
SaveCreate(c) ==
    /\ task[c].pc = "save_create"
    /\ \/ /\ task' = SetPc(c, MatchArm("ok"))                 \* File::create fails
          /\ files' = files
       \/ /\ task' = SetPc(c, "save_write")
          /\ files' = [files EXCEPT ![TaskId(c)] = [exists |-> TRUE, data |-> <<>>]]
    /\ UNCHANGED <<cliVars, counter, shared_logs, lock_held, poisoned, handle,
                   mainpc, status, logs, uiVars, run_result>>

\* save_rip_log: write_all writes the raw bytes, or fails.
SaveWrite(c) ==
    /\ task[c].pc = "save_write"
    /\ task' = SetPc(c, MatchArm("ok"))
    /\ \/ files' = [files EXCEPT ![TaskId(c)].data = task[c].bytes]
       \/ files' = files                                      \* write_all fails
    /\ UNCHANGED <<cliVars, counter, shared_logs, lock_held, poisoned, handle,
                   mainpc, status, logs, uiVars, run_result>>

\* Faulty variant of Lock: enters the critical section without waiting.
LockNoWait(c) ==
    /\ task[c].pc = "lock"
    /\ IF poisoned
       THEN task' = SetPc(c, "inc") /\ lock_held' = lock_held
       ELSE task' = SetPc(c, "push") /\ lock_held' = TRUE
    /\ UNCHANGED <<cliVars, counter, shared_logs, poisoned, files, handle,
                   mainpc, status, logs, uiVars, run_result>>

\* logs_worker.lock(): blocks while the mutex is held; a poisoned mutex yields
\* Err and the entry is not appended.
Lock(c) ==
    /\ task[c].pc = "lock"
    /\ ~lock_held
    /\ IF poisoned
       THEN task' = SetPc(c, "inc") /\ lock_held' = lock_held
       ELSE task' = SetPc(c, "push") /\ lock_held' = TRUE
    /\ UNCHANGED <<cliVars, counter, shared_logs, poisoned, files, handle,
                   mainpc, status, logs, uiVars, run_result>>

\* Faulty variant of Push: the guard is released without the append.
PushLost(c) ==
    /\ task[c].pc = "push"
    /\ lock_held' = FALSE
    /\ task' = SetPc(c, "inc")
    /\ UNCHANGED <<cliVars, counter, shared_logs, poisoned, files, handle,
                   mainpc, status, logs, uiVars, run_result>>

\* logs.push(entry); the guard is dropped at the end of the if-let block.
Push(c) ==
    /\ task[c].pc = "push"
    /\ shared_logs' = Append(shared_logs, LogEntry(c, task[c].bytes[1]))
    /\ lock_held' = FALSE
    /\ task' = SetPc(c, "inc")
    /\ UNCHANGED <<cliVars, counter, poisoned, files, handle,
                   mainpc, status, logs, uiVars, run_result>>

\* Faulty variant of Inc: the error arm leaves the closure before the fetch_add.
IncOnlyOk(c) ==
    /\ task[c].pc = "inc"
    /\ counter' = IF task[c].res = "ok" THEN counter + 1 ELSE counter
    /\ task' = SetPc(c, "done")
    /\ UNCHANGED <<cliVars, shared_logs, lock_held, poisoned, files, handle,
                   mainpc, status, logs, uiVars, run_result>>

\* Faulty variant of Inc: the counter is bumped on both arms and at the end.
IncTwice(c) ==
    /\ task[c].pc = "inc"
    /\ counter' = counter + 2
    /\ task' = SetPc(c, "done")
    /\ UNCHANGED <<cliVars, shared_logs, lock_held, poisoned, files, handle,
                   mainpc, status, logs, uiVars, run_result>>

\* counter_worker.fetch_add(1, Ordering::Relaxed)
Inc(c) ==
    /\ task[c].pc = "inc"
    /\ counter' = counter + 1
    /\ task' = SetPc(c, "done")
    /\ UNCHANGED <<cliVars, shared_logs, lock_held, poisoned, files, handle,
                   mainpc, status, logs, uiVars, run_result>>

\* The spawned closure ends when for_each returns: every job has ended; a
\* panic of a job is resumed in the analysis thread.
ThreadExit ==
    /\ handle = "running"
    /\ \A c \in Candidates : task[c].pc \in EndedPcs
    /\ handle' = IF \E c \in Candidates : task[c].pc = "panicked"
                 THEN "panicked" ELSE "finished"
    /\ UNCHANGED <<cliVars, task, counter, shared_logs, lock_held, poisoned, files,
                   mainpc, status, logs, uiVars, run_result>>


\* --------------------------------------------- the orchestrating thread: run
\* thread::spawn (line 107)
Spawn ==
    /\ mainpc = "spawn"
    /\ handle' = "running"
    /\ mainpc' = "loop_test"
    /\ UNCHANGED <<cliVars, task, counter, shared_logs, lock_held, poisoned, files,
                   status, logs, uiVars, run_result>>

\* Faulty variant of LoopTest: the loop goes on while counter <= total.
LoopTestNeverDone ==
    /\ mainpc = "loop_test"
    /\ mainpc' = IF counter <= total THEN "loop_body" ELSE "join"
    /\ UNCHANGED <<cliVars, analysisVars, status, logs, uiVars, run_result>>

\* while counter.load(Relaxed) < total (line 124)
LoopTest ==
    /\ mainpc = "loop_test"
    /\ mainpc' = IF counter < total THEN "loop_body" ELSE "join"
    /\ UNCHANGED <<cliVars, analysisVars, status, logs, uiVars, run_result>>

\* The loop body (lines 125-128): a second load, the status line, the sleep.
LoopBody ==
    /\ mainpc = "loop_body"
    /\ status' = <<[done |-> counter, total |-> total,
                    percent |-> Percent(counter, total)]>>
    /\ mainpc' = "loop_test"
    /\ UNCHANGED <<cliVars, analysisVars, logs, uiVars, run_result>>

\* Faulty variant of Join: does not wait for the analysis thread.
JoinNoWait ==
    /\ mainpc = "join"
    /\ mainpc' = "take"
    /\ UNCHANGED <<cliVars, analysisVars, status, logs, uiVars, run_result>>

\* handle.join().map_err(..)? (lines 131-133): blocks until the thread ended.
Join ==
    /\ mainpc = "join"
    /\ handle \in {"finished", "panicked"}
    /\ IF handle = "finished"
       THEN mainpc' = "take" /\ run_result' = run_result
       ELSE mainpc' = "exit" /\ run_result' = "err_panic"
    /\ UNCHANGED <<cliVars, analysisVars, status, logs, uiVars>>

\* shared_logs.lock().map_err(..).map(|guard| mem::take(guard))? (lines 137-140)
Take ==
    /\ mainpc = "take"
    /\ ~lock_held
    /\ IF poisoned
       THEN /\ mainpc' = "exit"
            /\ run_result' = "err_lock"
            /\ UNCHANGED <<logs, shared_logs>>
       ELSE /\ logs' = shared_logs
            /\ shared_logs' = <<>>
            /\ mainpc' = "filter"
            /\ run_result' = run_result
    /\ UNCHANGED <<cliVars, task, counter, lock_held, poisoned, files, handle,
                   status, uiVars>>

\* if !show_100 { logs.retain(..) } (lines 143-145)
Filter ==
    /\ mainpc = "filter"
    /\ logs' = IF ~show_100 THEN RetainNotFull(logs) ELSE logs
    /\ mainpc' = "enable_raw"
    /\ UNCHANGED <<cliVars, analysisVars, status, uiVars, run_result>>

\* ------------------------------------------------------- render_ui, ui_loop
\* A setup step of render_ui that fails returns its error at once (the ?).
SetupFails ==
    /\ mainpc' = "exit"
    /\ run_result' = "err_ui"

\* enable_raw_mode()? (line 215)
EnableRaw ==
    /\ mainpc = "enable_raw"
    /\ \/ mainpc' = "enter_alt" /\ raw_mode' = TRUE /\ run_result' = run_result
       \/ SetupFails /\ raw_mode' = raw_mode
    /\ UNCHANGED <<cliVars, analysisVars, status, logs, selected, alt_screen,
                   cursor_hidden, ui_result, event>>

\* execute!(stdout, EnterAlternateScreen)? (line 216)
EnterAlt ==
    /\ mainpc = "enter_alt"
    /\ \/ mainpc' = "new_terminal" /\ alt_screen' = TRUE /\ run_result' = run_result
       \/ SetupFails /\ alt_screen' = alt_screen
    /\ UNCHANGED <<cliVars, analysisVars, status, logs, selected, raw_mode,
                   cursor_hidden, ui_result, event>>

\* Terminal::new(backend)? (lines 217-218)
NewTerminal ==
    /\ mainpc = "new_terminal"
    /\ \/ mainpc' = "hide_cursor" /\ run_result' = run_result
       \/ SetupFails
    /\ UNCHANGED <<cliVars, analysisVars, status, logs, uiVars>>

\* terminal.hide_cursor()? (lines 219-221)
HideCursor ==
    /\ mainpc = "hide_cursor"
    /\ \/ mainpc' = "app_new" /\ cursor_hidden' = TRUE /\ run_result' = run_result
       \/ SetupFails /\ cursor_hidden' = cursor_hidden
    /\ UNCHANGED <<cliVars, analysisVars, status, logs, selected, raw_mode,
                   alt_screen, ui_result, event>>

\* App::new(logs, show_100) (line 223)
AppNew ==
    /\ mainpc = "app_new"
    /\ selected' = InitialSelection(logs)
    /\ mainpc' = "draw"
    /\ UNCHANGED <<cliVars, analysisVars, status, logs, raw_mode, alt_screen,
                   cursor_hidden, ui_result, event, run_result>>

\* terminal.draw(..)? (lines 236-238)
Draw ==
    /\ mainpc = "draw"
    /\ \/ mainpc' = "read" /\ ui_result' = ui_result
       \/ mainpc' = "cleanup" /\ ui_result' = "err"
    /\ event' = NoEvent
    /\ UNCHANGED <<cliVars, analysisVars, status, logs, selected, raw_mode,
                   alt_screen, cursor_hidden, run_result>>

KeyCodes == {"q", "Esc", "Enter", "c", "Down", "j", "Up", "k", "o", "x"}

\* crossterm events: key events (code, kind, modifiers), resizes, others.
\* reveal records how open_in_file_manager ended when the event called it.
Events ==
    [type : {"key"}, code : KeyCodes, press : BOOLEAN, ctrl : BOOLEAN,
     reveal : {"none"}]
    \cup [type : {"resize", "mouse"}, code : {"x"}, press : {FALSE},
          ctrl : {FALSE}, reveal : {"none"}]

IsPress(ev) == ev.type = "key" /\ ev.press

\* Faulty variant of IsQuit: no arm for Ctrl+C.
IsQuitNoInterrupt(ev) ==
    /\ IsPress(ev)
    /\ ev.code \in {"q", "Esc", "Enter"}

\* The arms of the match that break the loop (lines 242-245).
IsQuit(ev) ==
    /\ IsPress(ev)
    /\ \/ ev.code \in {"q", "Esc", "Enter"}
       \/ ev.code = "c" /\ ev.ctrl

IsDown(ev) == IsPress(ev) /\ ev.code \in {"Down", "j"}
IsUp(ev) == IsPress(ev) /\ ev.code \in {"Up", "k"}
IsOpen(ev) == IsPress(ev) /\ ev.code = "o"

\* event::read()? fails (line 240)
ReadFailsUi ==
    /\ mainpc = "read"
    /\ mainpc' = "cleanup"
    /\ ui_result' = "err"
    /\ event' = NoEvent
    /\ UNCHANGED <<cliVars, analysisVars, status, logs, selected, raw_mode,
                   alt_screen, cursor_hidden, run_result>>

\* A quit key: break, ui_loop returns Ok(()) (lines 242-245, 264)
Quit ==
    /\ mainpc = "read"
    /\ \E ev \in Events : IsQuit(ev) /\ event' = ev
    /\ mainpc' = "cleanup"
    /\ ui_result' = "ok"
    /\ UNCHANGED <<cliVars, analysisVars, status, logs, selected, raw_mode,
                   alt_screen, cursor_hidden, run_result>>

\* KeyCode::Down | Char('j') => app.select_next() (line 246)
NavigateDown ==
    /\ mainpc = "read"
    /\ \E ev \in Events : IsDown(ev) /\ event' = ev
    /\ selected' = SelectNext(selected, Len(logs))
    /\ mainpc' = "draw"
    /\ UNCHANGED <<cliVars, analysisVars, status, logs, raw_mode,
                   alt_screen, cursor_hidden, ui_result, run_result>>

\* KeyCode::Up | Char('k') => app.select_previous() (line 247)
NavigateUp ==
    /\ mainpc = "read"
    /\ \E ev \in Events : IsUp(ev) /\ event' = ev
    /\ selected' = SelectPrevious(selected, Len(logs))
    /\ mainpc' = "draw"
    /\ UNCHANGED <<cliVars, analysisVars, status, logs, raw_mode,
                   alt_screen, cursor_hidden, ui_result, run_result>>

\* Faulty variant of AfterOpen: a failed folder reveal ends the loop.
AfterOpenAbort(opened) == IF opened THEN "draw" ELSE "cleanup"

\* if let Err(err) = open_in_file_manager(..) { tracing::error!(..) }: the loop
\* goes on to its next iteration whether the reveal succeeded or not.
AfterOpen(opened) == "draw"

\* KeyCode::Char('o'): open_in_file_manager on the selected entry, whose
\* failure is only logged (lines 248-256)
OpenContainingFolder ==
    /\ mainpc = "read"
    /\ \E ev \in Events, opened \in BOOLEAN :
        /\ IsOpen(ev)
        /\ IF selected # {} /\ (\A i \in selected : i < Len(logs))
           THEN /\ event' = [ev EXCEPT !.reveal = IF opened THEN "ok" ELSE "err"]
                /\ mainpc' = AfterOpen(opened)
           ELSE /\ event' = ev
                /\ mainpc' = "draw"
    /\ UNCHANGED <<cliVars, analysisVars, status, logs, selected, raw_mode,
                   alt_screen, cursor_hidden, ui_result, run_result>>

\* Any other event: key releases, other keys, resizes (lines 257-260)
OtherEvent ==
    /\ mainpc = "read"
    /\ \E ev \in Events :
        /\ ~IsQuit(ev) /\ ~IsDown(ev) /\ ~IsUp(ev) /\ ~IsOpen(ev)
        /\ event' = ev
    /\ mainpc' = "draw"
    /\ UNCHANGED <<cliVars, analysisVars, status, logs, selected, raw_mode,
                   alt_screen, cursor_hidden, ui_result, run_result>>

\* show_cursor().ok(); execute!(LeaveAlternateScreen).ok(); disable_raw_mode().ok();
\* then ui_result is returned (lines 227-231). The errors of the three calls are
\* discarded; a call that is made restores its mode.
Cleanup ==
    /\ mainpc = "cleanup"
    /\ cursor_hidden' = FALSE
    /\ alt_screen' = FALSE
    /\ raw_mode' = FALSE
    /\ mainpc' = "exit"
    /\ run_result' = IF ui_result = "ok" THEN "ok" ELSE "err_ui"
    /\ event' = NoEvent
    /\ UNCHANGED <<cliVars, analysisVars, status, logs, selected, ui_result>>

\* ------------------------------------------------------------ specification
Next ==
    \/ Spawn
    \/ \E c \in Candidates : StartTask(c)
    \/ \E c \in Candidates : ReadFails(c)
    \/ \E c \in Candidates : ParseRejects(c)
    \/ \E c \in Candidates : ParseFaults(c)
    \/ \E c \in Candidates : ParseOk(c)
    \/ \E c \in Candidates : SaveCheck(c)
    \/ \E c \in Candidates : SaveCreate(c)
    \/ \E c \in Candidates : SaveWrite(c)
    \/ \E c \in Candidates : Lock(c)
    \/ \E c \in Candidates : Push(c)
    \/ \E c \in Candidates : Inc(c)
    \/ ThreadExit
    \/ LoopTest
    \/ LoopBody
    \/ Join
    \/ Take
    \/ Filter
    \/ EnableRaw
    \/ EnterAlt
    \/ NewTerminal
    \/ HideCursor
    \/ AppNew
    \/ Draw
    \/ ReadFailsUi
    \/ Quit
    \/ NavigateDown
    \/ NavigateUp
    \/ OpenContainingFolder
    \/ OtherEvent
    \/ Cleanup

Spec == Init /\ [][Next]_vars


\* ------------------------------------------- the result filter on its own
\* The state of run() at line 142 for any batch of up to MaxEntries candidates
\* whose logs were accepted or rejected, the results collected in any order.
InitFilter ==
    /\ total \in 1..MaxEntries
    /\ root = DirOfLogs(total)
    /\ log_paths = [i \in 1..total |-> i]
    /\ event = NoEvent
    /\ save_logs = FALSE
    /\ show_100 \in BOOLEAN
    /\ \E contents \in [1..total -> OkContents \cup {"rejected"}] :
        LET accepted == {c \in 1..total : ParseResult(contents[c]) = "ok"} IN
        /\ task = [c \in 1..total |->
                     [pc |-> "done", bytes |-> <<contents[c]>>,
                      res |-> IF c \in accepted THEN "ok" ELSE "err"]]
        /\ \E order \in [1..Cardinality(accepted) -> accepted] :
            /\ \A i, j \in DOMAIN order : order[i] = order[j] => i = j
            /\ logs = [i \in 1..Cardinality(accepted) |->
                         LogEntry(order[i], contents[order[i]])]
    /\ counter = total
    /\ shared_logs = <<>>
    /\ lock_held = FALSE
    /\ poisoned = FALSE
    /\ files = NoFiles
    /\ handle = "finished"
    /\ mainpc = "filter"
    /\ status = <<>>
    /\ selected = {}
    /\ raw_mode = FALSE
    /\ alt_screen = FALSE
    /\ cursor_hidden = FALSE
    /\ ui_result = "none"
    /\ run_result = "none"

NextFilter == Filter

SpecFilter == InitFilter /\ [][NextFilter]_vars

\* ------------------------------------------ the path collector on its own
\* run() up to line 98: the metadata of the root, the walk, the candidates.
\* The worker pool gets one task per collected path.
Collect ==
    /\ mainpc = "collect"
    /\ LET found == IF root.kind = "dir" THEN CollectPaths(root.walk)
                    ELSE IF root.kind = "file" THEN <<0>>
                    ELSE <<>> IN
       IF root.kind = "noaccess"
       THEN /\ mainpc' = "exit"
            /\ run_result' = "err_access"
            /\ UNCHANGED <<log_paths, total, task>>
       ELSE IF root.kind = "other"
       THEN /\ mainpc' = "exit"
            /\ run_result' = "err_invalid"
            /\ UNCHANGED <<log_paths, total, task>>
       ELSE IF found = <<>>
       THEN /\ mainpc' = "exit"
            /\ run_result' = "err_empty"
            /\ UNCHANGED <<log_paths, total, task>>
       ELSE /\ log_paths' = found
            /\ total' = Len(found)
            /\ task' = [c \in 1..Len(found) |-> NewTask]
            /\ mainpc' = "spawn"
            /\ run_result' = run_result
    /\ UNCHANGED <<root, save_logs, show_100, counter, shared_logs, lock_held,
                   poisoned, files, handle, status, logs, uiVars>>

\* The state when run() is entered, for every root of Roots.
InitCollect ==
    /\ root \in Roots
    /\ log_paths = <<>>
    /\ total = 0
    /\ save_logs = FALSE
    /\ show_100 = FALSE
    /\ task = <<>>
    /\ counter = 0
    /\ shared_logs = <<>>
    /\ lock_held = FALSE
    /\ poisoned = FALSE
    /\ files = NoFiles
    /\ handle = "unspawned"
    /\ mainpc = "collect"
    /\ status = <<>>
    /\ logs = <<>>
    /\ selected = {}
    /\ raw_mode = FALSE
    /\ alt_screen = FALSE
    /\ cursor_hidden = FALSE
    /\ ui_result = "none"
    /\ event = NoEvent
    /\ run_result = "none"

NextCollect == Collect

SpecCollect == InitCollect /\ [][NextCollect]_vars

\* ------------------------------------------------------ fair scheduling
\* A step of the worker pool or of the thread that runs it.
WorkerStep ==
    \/ \E c \in Candidates : StartTask(c)
    \/ \E c \in Candidates : ReadFails(c)
    \/ \E c \in Candidates : ParseRejects(c)
    \/ \E c \in Candidates : ParseFaults(c)
    \/ \E c \in Candidates : ParseOk(c)
    \/ \E c \in Candidates : SaveCheck(c)
    \/ \E c \in Candidates : SaveCreate(c)
    \/ \E c \in Candidates : SaveWrite(c)
    \/ \E c \in Candidates : Lock(c)
    \/ \E c \in Candidates : Push(c)
    \/ \E c \in Candidates : Inc(c)
    \/ ThreadExit

\* A step of run() on the orchestrating thread, up to the dashboard.
MainStep ==
    \/ Spawn
    \/ LoopTest
    \/ LoopBody
    \/ Join
    \/ Take
    \/ Filter

\* The operating system schedules both threads: neither waits forever while it
\* can take a step. Nothing is assumed of the terminal or the user.
FairSpec == Spec /\ WF_vars(WorkerStep) /\ WF_vars(MainStep)

\* exit code of the process (main, lines 55-64)
ExitCode == IF run_result = "ok" THEN 0 ELSE 1


\* ================================================================= claims
Failed == {c \in Candidates : task[c].res = "err"}
Succeeded == {c \in Candidates : task[c].res = "ok"}
Paths(l) == {l[i].path : i \in DOMAIN l}

\* C1: once the coordinator has returned (the polling loop has exited and the
\* analysis thread is joined), the completion counter equals the number of
\* candidates and the result collection holds one entry per candidate that
\* did not fail.
C1_CoordinatorReturn ==
    /\ mainpc = "take" =>
        /\ counter = total
        /\ Len(shared_logs) = total - Cardinality(Failed)
    /\ mainpc = "filter" => Len(logs) = total - Cardinality(Failed)

C1_Witness ==
    /\ mainpc = "take"
    /\ total >= 2
    /\ Failed # {}
    /\ Len(shared_logs) >= 1

\* C2: a worker that panics on a candidate still accounts for it in the
\* counter, and the guard of the result collection is not poisoned: when the
\* pool has ended after a panic, every candidate has been counted.
C2_FaultAccounted ==
    /\ ~poisoned
    /\ handle = "panicked" => counter = total

\* C3: a failing candidate adds no entry, is counted once like every completed
\* candidate, and does not abort the batch: when the pool ends normally every
\* candidate has been processed.
C3_FailureIsolated ==
    /\ \A c \in Failed : c \notin Paths(shared_logs) /\ c \notin Paths(logs)
    /\ counter = Cardinality({c \in Candidates : task[c].pc = "done"})
    /\ handle = "finished" => \A c \in Candidates : task[c].pc = "done"

C3_Witness ==
    /\ handle = "finished"
    /\ mainpc = "take"
    /\ \E c \in Failed : task[c].pc = "done"
    /\ \E c \in Succeeded : c \in Paths(shared_logs)

LoopPcs == {"spawn", "loop_test", "loop_body"}

\* C4: when control has left the progress loop, the last status update that
\* was emitted shows done == total, 100%.
C4_FinalUpdate ==
    mainpc \notin LoopPcs =>
        /\ status # <<>>
        /\ status[1].done = status[1].total
        /\ status[1].percent = 100

\* C5: once the file of an identifier has been written, its bytes never
\* change: no later persist of that identifier creates or writes the file.
C5_FirstWriterWins ==
    [][\A i \in Ids :
         (files[i].exists /\ files[i].data # <<>>) => files'[i] = files[i]]_vars

FilterStep == mainpc = "filter" /\ mainpc' # "filter"

\* The report has an OPS outcome, at any position, whose trimmed score is "100".
ContainsOpsFull(resp) ==
    \E i \in OpsPositions(resp) :
        Trim(resp.evaluation_combined[i].combined_score) = Score100

\* The first OPS outcome of the report has the trimmed score "100".
FirstOpsFull(resp) ==
    \E i \in OpsPositions(resp) :
        /\ \A j \in OpsPositions(resp) : i <= j
        /\ Trim(resp.evaluation_combined[i].combined_score) = Score100

\* C6 as stated: without the flag the filter removes exactly the entries
\* whose report contains an OPS outcome (at whichever position) with trimmed
\* score "100"; with the flag it removes nothing.
C6_RemovesAnyOpsFull ==
    [][FilterStep =>
         logs' = IF show_100 THEN logs
                 ELSE SelectSeq(logs, LAMBDA e : ~ContainsOpsFull(e.response))]_vars

\* C6 amended: without the flag the filter removes exactly the entries whose
\* first OPS outcome has the trimmed score "100" and keeps every other entry;
\* with the flag it removes nothing.
C6_RemovesFirstOpsFull ==
    [][FilterStep =>
         logs' = IF show_100 THEN logs
                 ELSE SelectSeq(logs, LAMBDA e : ~FirstOpsFull(e.response))]_vars

C6_Witness ==
    /\ mainpc = "enable_raw"
    /\ ~show_100
    /\ Len(logs) > 0
    /\ Len(logs) < Cardinality(Succeeded)
    /\ \E c \in Succeeded : c \notin Paths(logs) /\ task[c].bytes = <<"cambia_ops100pad">>

RECURSIVE IsSubseq(_, _)
IsSubseq(a, b) ==
    IF a = <<>> THEN TRUE
    ELSE IF b = <<>> THEN FALSE
    ELSE IF Head(a) = Head(b) THEN IsSubseq(Tail(a), Tail(b))
    ELSE IsSubseq(a, Tail(b))

\* C7: the filter keeps its entries in their relative order, keeps every entry
\* whose report has no OPS outcome, and filtering its result again changes
\* nothing.
C7_FilterAlgebra ==
    [][FilterStep =>
         /\ IsSubseq(logs', logs)
         /\ \A i \in DOMAIN logs :
              OpsPositions(logs[i].response) = {} => logs[i].path \in Paths(logs')
         /\ (IF show_100 THEN logs' ELSE RetainNotFull(logs')) = logs']_vars

C7_Witness ==
    /\ mainpc = "enable_raw"
    /\ ~show_100
    /\ Len(logs) >= 2
    /\ Len(logs) < Cardinality(Succeeded)
    /\ \E i \in DOMAIN logs : OpsPositions(logs[i].response) = {}

DashboardPcs == {"draw", "read", "cleanup"}
InDashboard == mainpc \in DashboardPcs \/ (mainpc = "exit" /\ ui_result # "none")

\* C8: in every dashboard state the selected index is some index in
\* [0, len-1] exactly when the list is non-empty and none when it is empty,
\* and on an empty list an input event leaves the selection as it is.
C8_SelectionValid ==
    /\ [](InDashboard =>
            /\ Cardinality(selected) <= 1
            /\ selected # {} <=> Len(logs) > 0
            /\ \A i \in selected : 0 <= i /\ i <= Len(logs) - 1)
    /\ [][(mainpc = "read" /\ Len(logs) = 0) => selected' = selected]_vars

C8_Witness ==
    /\ mainpc = "read"
    /\ Len(logs) = 2
    /\ selected = {1}

\* C9: on every exit of run() the terminal is restored: not in raw mode, not
\* on the alternate screen, the cursor visible.
C9_TerminalRestored ==
    mainpc = "exit" => ~raw_mode /\ ~alt_screen /\ ~cursor_hidden

AfterJoinPcs ==
    {"take", "filter", "enable_raw", "enter_alt", "new_terminal", "hide_cursor",
     "app_new"} \cup DashboardPcs

\* C10: while the orchestrating thread reads the result collection, filters
\* it or runs the dashboard, every candidate has been accounted for, the
\* analysis thread has finished and no worker runs or holds the guard.
C10_PhasesDisjoint ==
    (mainpc \in AfterJoinPcs \/ (mainpc = "exit" /\ run_result # "err_panic")) =>
        /\ handle = "finished"
        /\ \A c \in Candidates : task[c].pc = "done"
        /\ counter = total
        /\ ~lock_held

C10_Witness ==
    /\ mainpc = "read"
    /\ total >= 2
    /\ Len(logs) >= 1
    /\ handle = "finished"

\* C11: a fault of the worker pool is fatal: once the pool's thread has
\* panicked the dashboard is never started, and the run ends with the
\* worker-pool error and a non-zero exit code.
C11_PoolFaultFatal ==
    /\ [](handle = "panicked" => ~InDashboard)
    /\ (handle = "panicked") ~>
         (mainpc = "exit" /\ run_result = "err_panic" /\ ExitCode # 0)

\* A name with the extension "log" in any letter case: a non-empty stem, a
\* dot, then the three letters.
HasLogExtension(name) ==
    /\ Len(name) >= 5
    /\ name[Len(name) - 3] = "."
    /\ name[Len(name) - 2] \in {"l", "L"}
    /\ name[Len(name) - 1] \in {"o", "O"}
    /\ name[Len(name)] \in {"g", "G"}

\* The positions of the walk that hold a regular file with extension "log".
LogFilesOf(walk) ==
    {i \in 1..Len(walk) :
        /\ walk[i].ok
        /\ walk[i].file_type = "file"
        /\ HasLogExtension(walk[i].name)}

\* C12: for a directory root the collector returns exactly the regular files
\* under it whose extension is "log" in any letter case, each once, and the
\* candidate count is their number; when there is none the run ends with the
\* empty-result error; a regular-file root yields that file as the single
\* candidate whatever its name.
C12_CollectorExact ==
    mainpc # "collect" =>
        /\ root.kind = "dir" /\ LogFilesOf(root.walk) = {} =>
               mainpc = "exit" /\ run_result = "err_empty"
        /\ root.kind = "dir" /\ LogFilesOf(root.walk) # {} =>
               /\ mainpc = "spawn"
               /\ total = Cardinality(LogFilesOf(root.walk))
               /\ Len(log_paths) = total
               /\ {log_paths[i] : i \in 1..Len(log_paths)} = LogFilesOf(root.walk)
               /\ DOMAIN task = 1..total
        /\ root.kind = "file" =>
               /\ mainpc = "spawn"
               /\ total = 1
               /\ log_paths = <<0>>
               /\ DOMAIN task = 1..1

\* A directory whose walk holds an upper-case .LOG file that was collected
\* next to an entry that was skipped.
C12_Witness ==
    /\ root.kind = "dir"
    /\ mainpc = "spawn"
    /\ total = 2
    /\ Len(root.walk) = 3
    /\ \E i \in 1..Len(log_paths) :
           root.walk[log_paths[i]].name = <<"y", ".", "L", "O", "G">>
    /\ \E j \in 1..Len(root.walk) :
           /\ root.walk[j].ok
           /\ root.walk[j].name = <<".", "l", "o", "g">>

\* The candidates that the counter has counted.
Counted == {c \in Candidates : task[c].pc = "done"}

\* C13: the completion counter never decreases and never exceeds the number
\* of candidates; it is the number of candidates that completed, each step
\* raises it by one for exactly one candidate that completes, and when the
\* pool has ended every candidate that succeeded or failed has been counted.
C13_CounterOncePerCandidate ==
    /\ [](/\ counter <= total
          /\ counter = Cardinality(Counted)
          /\ handle \in {"finished", "panicked"} =>
                 \A c \in Succeeded \cup Failed : c \in Counted)
    /\ [][/\ counter' >= counter
          /\ counter' # counter =>
                 /\ counter' = counter + 1
                 /\ \E c \in Candidates :
                        /\ task[c].pc # "done"
                        /\ task'[c].pc = "done"
                        /\ \A d \in Candidates \ {c} : task'[d] = task[d]]_vars

C13_Witness ==
    /\ mainpc \in LoopPcs
    /\ total >= 2
    /\ counter = total
    /\ Failed # {}
    /\ Succeeded # {}

\* The result collection as the workers left it: the shared vector until it
\* is taken, the taken vector before it is filtered.
Collected == IF mainpc = "filter" THEN logs ELSE shared_logs

\* The candidates that have left the critical section.
Appended(c) == task[c].res = "ok" /\ task[c].pc \in {"inc", "done"}

\* C14: at most one worker is inside the critical section of the result
\* collection, the guard is held exactly while a worker is there, the
\* critical section is one append of that worker's entry, the collection
\* changes nowhere else while the pool runs, and each successful candidate
\* that has left the section has exactly one entry in the collection.
C14_ExclusiveAppend ==
    /\ [](/\ Cardinality({c \in Candidates : task[c].pc = "push"}) <= 1
          /\ lock_held <=> \E c \in Candidates : task[c].pc = "push"
          /\ mainpc \in LoopPcs \cup {"join", "take", "filter"} /\ ~poisoned =>
                 /\ \A c \in Candidates :
                        Cardinality({i \in DOMAIN Collected :
                                        Collected[i].path = c})
                          = IF Appended(c) THEN 1 ELSE 0
                 /\ \A c \in Candidates : Appended(c) =>
                        \E i \in DOMAIN Collected :
                            Collected[i] = LogEntry(c, task[c].bytes[1]))
    /\ [][/\ lock_held /\ ~lock_held' =>
                 \E c \in Candidates :
                     /\ task[c].pc = "push"
                     /\ shared_logs' =
                            Append(shared_logs, LogEntry(c, task[c].bytes[1]))
          /\ shared_logs' # shared_logs => lock_held \/ mainpc = "take"]_vars

\* One worker is inside the critical section while the other waits for it.
C14_Witness ==
    /\ lock_held
    /\ \E c, d \in Candidates :
           /\ c # d
           /\ task[c].pc = "push"
           /\ task[d].pc = "lock"

\* Some read or evaluation did not return: the evaluator panicked.
Faulted == \E c \in Candidates : task[c].pc = "panicked"

\* C15: under fair scheduling, unless an evaluation faults, the progress
\* loop is left with done == total, the analysis thread is joined after it
\* finished, and run goes on to the dashboard with every candidate
\* processed; the loop is never left before done == total, and no step of
\* the orchestrating thread changes a task or the counter.
C15_BatchCompletes ==
    /\ <>(Faulted \/ (/\ mainpc = "enable_raw"
                      /\ counter = total
                      /\ handle = "finished"
                      /\ \A c \in Candidates : task[c].pc = "done"))
    /\ [](mainpc \notin LoopPcs => counter = total)
    /\ [][mainpc' # mainpc => task' = task /\ counter' = counter]_vars

C15_Witness ==
    /\ mainpc = "enable_raw"
    /\ total >= 2
    /\ counter = total
    /\ handle = "finished"
    /\ status # <<>>
    /\ Failed # {}

\* Input events by what the user did.
KeyPress(code, ctrl) ==
    [type |-> "key", code |-> code, press |-> TRUE, ctrl |-> ctrl,
     reveal |-> "none"]

QuitInputs ==
    {KeyPress(k, m) : k \in {"q", "Esc", "Enter"}, m \in BOOLEAN}
    \cup {KeyPress("c", TRUE)}

DownInputs == {KeyPress(k, m) : k \in {"Down", "j"}, m \in BOOLEAN}
UpInputs == {KeyPress(k, m) : k \in {"Up", "k"}, m \in BOOLEAN}

\* The key that asks for the containing folder, with how the reveal ended.
OpenInputs ==
    {[KeyPress("o", m) EXCEPT !.reveal = r] :
        m \in BOOLEAN, r \in {"none", "ok", "err"}}

\* An event has been read by this step.
ReadsEvent == mainpc = "read" /\ event' # NoEvent

\* C16: whether the list has entries or not, a press of q, Escape, Enter or
\* Ctrl+C ends the loop with a successful result, which run then returns;
\* every other event that is read leaves the loop running; the loop ends
\* with success only after a quit input.
C16_QuitExits ==
    /\ [][ReadsEvent =>
            IF event' \in QuitInputs
            THEN mainpc' = "cleanup" /\ ui_result' = "ok"
            ELSE mainpc' = "draw" /\ ui_result' = ui_result]_vars
    /\ [](mainpc = "cleanup" /\ ui_result = "ok" => event \in QuitInputs)
    /\ [](mainpc = "exit" /\ ui_result = "ok" => run_result = "ok")

\* Ctrl+C has ended the dashboard of an empty list.
C16_Witness ==
    /\ mainpc = "cleanup"
    /\ event = KeyPress("c", TRUE)
    /\ ui_result = "ok"
    /\ Len(logs) = 0
    /\ selected = {}

\* C17: while the dashboard runs the list and the show-full-score flag do
\* not change; the selection changes only on a navigation key; the open key
\* (whether the reveal succeeded, failed or was not attempted), a resize and
\* every unrecognised event leave list, flag, selection, result and terminal
\* modes as they were and the loop running.
C17_OnlyNavigationMutates ==
    /\ [][(mainpc \in DashboardPcs) =>
            UNCHANGED <<logs, show_100>>]_vars
    /\ [][(mainpc \in DashboardPcs) /\ selected' # selected =>
            mainpc = "read" /\ event' \in DownInputs \cup UpInputs]_vars
    /\ [][ReadsEvent /\ event' \notin QuitInputs \cup DownInputs \cup UpInputs =>
            /\ mainpc' = "draw"
            /\ UNCHANGED <<logs, show_100, selected, ui_result, raw_mode,
                           alt_screen, cursor_hidden, run_result>>]_vars

\* The reveal of the selected entry's folder has failed and the loop goes on.
C17_Witness ==
    /\ mainpc = "draw"
    /\ event \in OpenInputs
    /\ event.reveal = "err"
    /\ selected = {1}
    /\ Len(logs) = 2

\* C18: with a list of len > 0 entries and index i selected, a Down key
\* selects min(i + 1, len - 1) and an Up key selects max(i - 1, 0); App::new
\* selects index 0 when the filtered list has entries and nothing otherwise.
C18_NavigationClamps ==
    /\ [][ReadsEvent /\ Len(logs) > 0 /\ selected # {} =>
            \A i \in selected :
                /\ event' \in DownInputs =>
                       selected' = {Min({i + 1, Len(logs) - 1})}
                /\ event' \in UpInputs =>
                       selected' = {Max({i - 1, 0})}]_vars
    /\ [][mainpc = "app_new" =>
            /\ mainpc' = "draw"
            /\ selected' = IF Len(logs) > 0 THEN {0} ELSE {}]_vars

\* An Up key at the first entry of a list of two or more.
C18_Witness ==
    /\ mainpc = "draw"
    /\ event \in UpInputs
    /\ selected = {0}
    /\ Len(logs) >= 2

SavePcs == {"save_check", "save_create", "save_write"}

\* The analysis phase: the result collection is still the shared vector.
BeforeTake == mainpc \in LoopPcs \cup {"join", "take"}

\* C19: a candidate whose bytes are being persisted goes on to the append
\* with its result and bytes unchanged whatever the outcome of the directory
\* creation, the file creation and the write; every successful candidate
\* that completed, persisted or not, has its entry in the collection and is
\* counted once.
C19_PersistFailureRecovered ==
    /\ [][\A c \in Candidates : task[c].pc \in SavePcs =>
            /\ task'[c].pc \in SavePcs \cup {"lock"}
            /\ task'[c].res = "ok"
            /\ task'[c].bytes = task[c].bytes]_vars
    /\ [](BeforeTake /\ ~poisoned =>
            \A c \in Succeeded : task[c].pc = "done" =>
                /\ \E i \in DOMAIN shared_logs :
                       shared_logs[i] = LogEntry(c, task[c].bytes[1])
                /\ c \in Counted)

\* Persisting was asked for, a candidate completed with its entry appended,
\* and no file holds its bytes.
C19_Witness ==
    /\ save_logs
    /\ BeforeTake
    /\ \E c \in Succeeded :
           /\ task[c].pc = "done"
           /\ ~files[TaskId(c)].exists
           /\ \E i \in DOMAIN shared_logs :
                  shared_logs[i] = LogEntry(c, task[c].bytes[1])

\* The outcome of a candidate is final: its entry is in the collection, or
\* its failure has been reported.
Final(c) ==
    \/ task[c].res = "ok" /\ c \in Paths(shared_logs)
    \/ task[c].res = "err" /\ task[c].pc \in {"inc", "done"}

\* C20: during the analysis phase the counter is at most the number of
\* candidates whose outcome is final, every counted candidate's outcome is
\* final, and when the counter equals the total the collection holds the
\* entry of every successful candidate.
C20_AppendBeforeCount ==
    BeforeTake /\ ~poisoned =>
        /\ counter <= Cardinality({c \in Candidates : Final(c)})
        /\ \A c \in Counted : Final(c)
        /\ counter = total =>
               /\ Succeeded \subseteq Paths(shared_logs)
               /\ Len(shared_logs) = Cardinality(Succeeded)

\* The loop has seen counter == total while the analysis thread still runs.
C20_Witness ==
    /\ mainpc = "join"
    /\ handle = "running"
    /\ total >= 2
    /\ counter = total
    /\ Len(shared_logs) = total

====
